---- MODULE Spec2Model ----
(***************************************************************************)
(* Outbound-call resilience core of BuddyImagine:                          *)
(*   imagine/services/fal.py  CircuitBreaker, RetryConfig, FalService      *)
(*   imagine/middleware/rate_limit.py  RateLimitConfig, RateLimiter        *)
(*   imagine/handlers.py  run_generation_safe                             *)
(* For the service, time is the value of time(), counted in whole seconds; *)
(* for the rate limiter it is counted in ticks, TicksPerSecond to a second.*)
(***************************************************************************)
EXTENDS Integers, Sequences, FiniteSets, TLC

VARIABLES
    now,              \* the value time() returns
    config,           \* CircuitBreakerConfig of the shared breaker
    retry_config,     \* RetryConfig of the service
    circuit_breaker,  \* the CircuitBreaker fields
    last_op,          \* the breaker method called last by a direct caller
    last_ret,         \* what the last direct can_execute() returned
    prev_state,       \* the breaker's state before the last direct call
    consecutive,      \* record_failure() calls since the last record_success()
    recorded,         \* record_failure() calls since failure_count was last set to 0
    discarded,        \* the failure_count the last direct record_success() set to 0
    pc,               \* per request: "idle", "transport", "sleeping" or "done"
    method,           \* per request: the FalService method that serves it
    attempt,          \* per request: the loop variable of the retry loop
    last_exception,   \* per request: the text of the exception caught last
    result,           \* per request: what the call returned or raised
    calls,            \* per request: _execute_generation() calls started
    sleeps,           \* per request: the asyncio.sleep() delays, in order
    wake_at,          \* per request: when the running sleep ends
    issued,           \* generate calls made so far
    half_open_admitted, \* can_execute() calls let through while half-open
    clock,            \* the value time() returns to the rate limiter, in ticks
    rate_config,      \* RateLimitConfig of the rate limiter
    limiter,          \* the RateLimiter fields
    returned,         \* per user: the RateLimitResult of the user's last check
    last_call,        \* the RateLimiter method called last, and for which user
    elapsed_steps,    \* how often the clock has moved
    limiter2,         \* the RateLimiter fields in a second run of the program
    returned2,        \* per user: the last RateLimitResult in the second run
    run,              \* the locals and the effects of the current run_generation_safe() call
    runs              \* run_generation_safe() calls made so far

breaker_vars == <<circuit_breaker, last_op, last_ret, prev_state, consecutive, recorded,
                  discarded>>
request_vars == <<pc, method, attempt, last_exception, result, calls, sleeps, wake_at,
                  issued, half_open_admitted>>
service_vars == <<now, config, retry_config, breaker_vars, request_vars>>
second_run == <<limiter2, returned2>>
limiter_vars == <<clock, rate_config, limiter, returned, last_call, elapsed_steps, second_run>>
handler_vars == <<run, runs>>
vars == <<service_vars, limiter_vars, handler_vars>>

\* ---------------------------------------------------------------- bounds
MaxTime == 4
MaxFailures == 4
MaxIssued == 4
MaxElapses == 2
MaxRuns == 2
MaxRecords == 3
TicksPerSecond == 2

\* ---------------------------------------------------------------- helpers
Min(a, b) == IF a <= b THEN a ELSE b

RECURSIVE Pow(_, _)
Pow(b, n) == IF n = 0 THEN 1 ELSE b * Pow(b, n - 1)

\* ---------------------------------------------------------------- CircuitBreaker
\* The dataclass's field defaults.
NewCircuitBreaker ==
    [failure_count |-> 0, last_failure_time |-> 0, state |-> "closed", half_open_calls |-> 0]

\* can_execute() with the timeout test made strict.
can_execute_strict(cb, t) ==
    IF cb.state = "closed"
    THEN [ret |-> TRUE, cb |-> cb]
    ELSE IF cb.state = "open"
    THEN IF t - cb.last_failure_time > config.reset_timeout
         THEN [ret |-> TRUE, cb |-> [cb EXCEPT !.state = "half-open", !.half_open_calls = 0]]
         ELSE [ret |-> FALSE, cb |-> cb]
    ELSE IF cb.half_open_calls < config.half_open_max_calls
         THEN [ret |-> TRUE, cb |-> cb]
         ELSE [ret |-> FALSE, cb |-> cb]

\* can_execute(): the returned value and the breaker it leaves, called at time t.
can_execute(cb, t) ==
    IF cb.state = "closed"
    THEN [ret |-> TRUE, cb |-> cb]
    ELSE IF cb.state = "open"
    THEN IF t - cb.last_failure_time >= config.reset_timeout
         THEN [ret |-> TRUE, cb |-> [cb EXCEPT !.state = "half-open", !.half_open_calls = 0]]
         ELSE [ret |-> FALSE, cb |-> cb]
    ELSE IF cb.half_open_calls < config.half_open_max_calls
         THEN [ret |-> TRUE, cb |-> cb]
         ELSE [ret |-> FALSE, cb |-> cb]

\* record_success() that closes the breaker whatever its state.
record_success_closing(cb) ==
    [cb EXCEPT !.state = "closed", !.failure_count = 0]

\* record_success() that resets the count only when it closes a half-open breaker.
record_success_keeping(cb) ==
    IF cb.state = "half-open"
    THEN [cb EXCEPT !.state = "closed", !.failure_count = 0]
    ELSE cb

\* record_success(): the breaker it leaves.
record_success(cb) ==
    IF cb.state = "half-open"
    THEN [cb EXCEPT !.state = "closed", !.failure_count = 0]
    ELSE IF cb.state = "closed"
    THEN [cb EXCEPT !.failure_count = 0]
    ELSE cb

\* record_failure() with the threshold test off by one.
record_failure_late(cb, t) ==
    LET counted == [cb EXCEPT !.failure_count = @ + 1, !.last_failure_time = t]
    IN  IF counted.state = "half-open"
        THEN [counted EXCEPT !.state = "open"]
        ELSE IF counted.failure_count > config.failure_threshold
        THEN [counted EXCEPT !.state = "open"]
        ELSE counted

\* record_failure() that notes the time but forgets to count.
record_failure_uncounted(cb, t) ==
    LET timed == [cb EXCEPT !.last_failure_time = t]
    IN  IF timed.state = "half-open"
        THEN [timed EXCEPT !.state = "open"]
        ELSE IF timed.failure_count >= config.failure_threshold
        THEN [timed EXCEPT !.state = "open"]
        ELSE timed

\* record_failure() that stops counting once the breaker is open.
record_failure_saturating(cb, t) ==
    IF cb.state = "open"
    THEN [cb EXCEPT !.last_failure_time = t]
    ELSE LET counted == [cb EXCEPT !.failure_count = @ + 1, !.last_failure_time = t]
         IN  IF counted.state = "half-open"
             THEN [counted EXCEPT !.state = "open"]
             ELSE IF counted.failure_count >= config.failure_threshold
             THEN [counted EXCEPT !.state = "open"]
             ELSE counted

\* record_failure() that keeps the time of the failure that opened the breaker.
record_failure_since_opening(cb, t) ==
    IF cb.state = "open"
    THEN [cb EXCEPT !.failure_count = @ + 1]
    ELSE LET counted == [cb EXCEPT !.failure_count = @ + 1, !.last_failure_time = t]
         IN  IF counted.state = "half-open"
             THEN [counted EXCEPT !.state = "open"]
             ELSE IF counted.failure_count >= config.failure_threshold
             THEN [counted EXCEPT !.state = "open"]
             ELSE counted

\* record_failure(): the breaker it leaves, called at time t.
record_failure(cb, t) ==
    LET counted == [cb EXCEPT !.failure_count = @ + 1, !.last_failure_time = t]
        tripped == IF counted.state = "half-open"
                   THEN [counted EXCEPT !.state = "open"]
                   ELSE IF counted.failure_count >= config.failure_threshold
                   THEN [counted EXCEPT !.state = "open"]
                   ELSE counted
    IN  IF tripped.state = "half-open"
        THEN [tripped EXCEPT !.half_open_calls = @ + 1]
        ELSE tripped

\* ---------------------------------------------------------------- FalService
Requests == {"a", "b", "c"}

Methods == {"generate_image", "generate_image_to_image"}

\* What one HTTP exchange of _execute_generation can meet: a status of the POST, the
\* 120 s timeout, a data URI that does not decode, or an exception raised inside the
\* HTTP client with the given text.
Responses ==
    {"200", "401", "403", "429", "503", "timeout", "bad_data_uri",
     "raise:Unauthorized", "raise:Forbidden", "raise:Invalid prompt"}

\* _execute_generation(): the image, or the text of the exception it raises.
execute_generation(resp) ==
    CASE resp = "200" -> [ok |-> TRUE, exc |-> "none"]
      [] resp = "429" -> [ok |-> FALSE, exc |-> "FAL API rate limit exceeded"]
      [] resp = "503" -> [ok |-> FALSE, exc |-> "FAL API service unavailable"]
      [] resp = "401" -> [ok |-> FALSE, exc |-> "FAL API Error: 401"]
      [] resp = "403" -> [ok |-> FALSE, exc |-> "FAL API Error: 403"]
      [] resp = "timeout" -> [ok |-> FALSE, exc |-> ""]
      [] resp = "bad_data_uri" ->
            [ok |-> FALSE, exc |-> "Failed to decode image data: Invalid base64-encoded string"]
      [] resp = "raise:Unauthorized" -> [ok |-> FALSE, exc |-> "Unauthorized"]
      [] resp = "raise:Forbidden" -> [ok |-> FALSE, exc |-> "Forbidden"]
      [] resp = "raise:Invalid prompt" -> [ok |-> FALSE, exc |-> "Invalid prompt"]

\* The words the retry loop looks for that occur in str(e).lower().
error_str(exc) ==
    CASE exc = "Failed to decode image data: Invalid base64-encoded string" -> {"invalid"}
      [] exc = "Unauthorized" -> {"unauthorized"}
      [] exc = "Forbidden" -> {"forbidden"}
      [] exc = "Invalid prompt" -> {"invalid", "prompt"}
      [] OTHER -> {}

\* The re-raise tests with the test for "forbidden" left out.
not_retried_unauthorized_only(m, exc) ==
    \/ "unauthorized" \in error_str(exc)
    \/ IF m = "generate_image"
       THEN "invalid" \in error_str(exc) /\ "prompt" \in error_str(exc)
       ELSE "invalid" \in error_str(exc)

\* The re-raise tests of the except block: TRUE when the exception is not retried.
not_retried(m, exc) ==
    \/ "unauthorized" \in error_str(exc)
    \/ "forbidden" \in error_str(exc)
    \/ IF m = "generate_image"
       THEN "invalid" \in error_str(exc) /\ "prompt" \in error_str(exc)
       ELSE "invalid" \in error_str(exc)

\* The retry test off by one: the last attempt is followed by a sleep too.
should_retry_late(n) == n <= retry_config.max_retries

\* The test that decides whether failed attempt n is followed by a sleep.
should_retry(n) == n < retry_config.max_retries

\* The backoff delay with the exponent off by one.
delay_next_power(n) ==
    Min(retry_config.base_delay * Pow(retry_config.exponential_base, n + 1),
        retry_config.max_delay)

\* The backoff delay without its cap.
delay_uncapped(n) == retry_config.base_delay * Pow(retry_config.exponential_base, n)

\* The backoff delay computed after failed attempt n.
delay(n) ==
    Min(retry_config.base_delay * Pow(retry_config.exponential_base, n), retry_config.max_delay)

ServiceUnavailable == "Service temporarily unavailable. Please try again later."

\* The raise after the loop, with a text of its own in place of the last exception.
raised_generic(last) == "Generation failed"

\* The raise after the loop: `raise last_exception or Exception("Generation failed")`.
raised(last) == IF last = "none" THEN "Generation failed" ELSE last

InitRequests ==
    /\ pc = [r \in Requests |-> "idle"]
    /\ method = [r \in Requests |-> "generate_image"]
    /\ attempt = [r \in Requests |-> 0]
    /\ last_exception = [r \in Requests |-> "none"]
    /\ result = [r \in Requests |-> "none"]
    /\ calls = [r \in Requests |-> 0]
    /\ sleeps = [r \in Requests |-> <<>>]
    /\ wake_at = [r \in Requests |-> 0]
    /\ issued = 0
    /\ half_open_admitted = 0

\* The count of calls admitted in the half-open state, after a breaker step.
admitted_after(before, after, let_through) ==
    IF after.state # "half-open" THEN 0
    ELSE IF before.state # "half-open" THEN 0
    ELSE IF let_through THEN half_open_admitted + 1
    ELSE half_open_admitted

\* A refused call that is booked as a failed attempt.
refuse_counting(r, cb) ==
    /\ circuit_breaker' = record_failure(cb, now)
    /\ pc' = [pc EXCEPT ![r] = "done"]
    /\ calls' = [calls EXCEPT ![r] = 0]
    /\ result' = [result EXCEPT ![r] = ServiceUnavailable]

\* The raise of a refused call: can_execute() was false and left the breaker cb.
refuse(r, cb) ==
    /\ circuit_breaker' = cb
    /\ pc' = [pc EXCEPT ![r] = "done"]
    /\ calls' = [calls EXCEPT ![r] = 0]
    /\ result' = [result EXCEPT ![r] = ServiceUnavailable]

\* A caller awaits generate_image / generate_image_to_image: the breaker check and,
\* when it passes, the first _execute_generation call up to its await.
Generate(r, m) ==
    LET check == can_execute(circuit_breaker, now)
    IN  /\ pc[r] \in {"idle", "done"}
        /\ issued < MaxIssued
        /\ issued' = issued + 1
        /\ method' = [method EXCEPT ![r] = m]
        /\ half_open_admitted' = admitted_after(circuit_breaker, check.cb, check.ret)
        /\ attempt' = [attempt EXCEPT ![r] = 0]
        /\ last_exception' = [last_exception EXCEPT ![r] = "none"]
        /\ sleeps' = [sleeps EXCEPT ![r] = <<>>]
        /\ wake_at' = [wake_at EXCEPT ![r] = 0]
        /\ IF check.ret
           THEN /\ circuit_breaker' = check.cb
                /\ pc' = [pc EXCEPT ![r] = "transport"]
                /\ calls' = [calls EXCEPT ![r] = 1]
                /\ result' = [result EXCEPT ![r] = "none"]
           ELSE refuse(r, check.cb)
        /\ UNCHANGED <<limiter_vars, handler_vars, now, config, retry_config, last_op, last_ret, prev_state, consecutive,
                       recorded, discarded>>

\* The record_failure() calls made since failure_count was last set to 0, after a
\* record_success() (which sets it to 0 unless the breaker is open) or a
\* record_failure().
recorded_after(success) ==
    IF ~success THEN recorded + 1
    ELSE IF circuit_breaker.state = "open" THEN recorded
    ELSE 0

\* _execute_generation returns or raises, and the loop body runs to its next await
\* or to the end of the call.
ExecuteReturns(r, resp) ==
    LET out == execute_generation(resp)
        failed == record_failure(circuit_breaker, now)
    IN  /\ pc[r] = "transport"
        /\ IF out.ok
           THEN /\ circuit_breaker' = record_success(circuit_breaker)
                /\ result' = [result EXCEPT ![r] = "image"]
                /\ pc' = [pc EXCEPT ![r] = "done"]
                /\ UNCHANGED <<last_exception, sleeps, wake_at>>
           ELSE /\ circuit_breaker' = failed
                /\ last_exception' = [last_exception EXCEPT ![r] = out.exc]
                /\ IF not_retried(method[r], out.exc)
                   THEN /\ result' = [result EXCEPT ![r] = out.exc]
                        /\ pc' = [pc EXCEPT ![r] = "done"]
                        /\ UNCHANGED <<sleeps, wake_at>>
                   ELSE IF should_retry(attempt[r])
                   THEN /\ sleeps' = [sleeps EXCEPT ![r] = Append(@, delay(attempt[r]))]
                        /\ wake_at' = [wake_at EXCEPT ![r] = now + delay(attempt[r])]
                        /\ pc' = [pc EXCEPT ![r] = "sleeping"]
                        /\ UNCHANGED result
                   ELSE /\ result' = [result EXCEPT ![r] = raised(out.exc)]
                        /\ pc' = [pc EXCEPT ![r] = "done"]
                        /\ UNCHANGED <<sleeps, wake_at>>
        /\ half_open_admitted' = admitted_after(circuit_breaker, circuit_breaker', FALSE)
        /\ recorded' = recorded_after(out.ok)
        /\ UNCHANGED <<limiter_vars, handler_vars, now, config, retry_config, last_op, last_ret, prev_state, consecutive,
                       discarded, method, attempt, calls, issued>>

\* asyncio.sleep(delay) returns: the for loop takes its next value and calls
\* _execute_generation again, or is exhausted and the last exception is raised.
SleepReturns(r) ==
    /\ pc[r] = "sleeping"
    /\ now >= wake_at[r]
    /\ IF attempt[r] + 1 <= retry_config.max_retries
       THEN /\ attempt' = [attempt EXCEPT ![r] = @ + 1]
            /\ calls' = [calls EXCEPT ![r] = @ + 1]
            /\ pc' = [pc EXCEPT ![r] = "transport"]
            /\ UNCHANGED result
       ELSE /\ result' = [result EXCEPT ![r] = raised(last_exception[r])]
            /\ pc' = [pc EXCEPT ![r] = "done"]
            /\ UNCHANGED <<attempt, calls>>
    /\ UNCHANGED <<limiter_vars, handler_vars, now, config, retry_config, breaker_vars, method, last_exception,
                   sleeps, wake_at, issued, half_open_admitted>>

\* ---------------------------------------------------------------- run_generation_safe
\* Credits are counted in 1/100000 of a credit and API costs in 1/1000 of a dollar, so
\* that (api_cost / 0.10) * 1.15 is api_cost * 1150. The ledger is the remote one: the
\* model keeps the amounts of the deductions it granted and of the refunds asked of it.
\* Estimate with 15% markup, and 10% more for uncompressed storage.
credits_needed(api_cost, save_uncompressed_to_r2) ==
    IF save_uncompressed_to_r2
    THEN (api_cost * 1150 * 110) \div 100
    ELSE api_cost * 1150

\* The locals of a call before its first statement, and the effects it has had.
NewRun ==
    [pc |-> "idle", convex_service |-> TRUE, user_credits |-> 0, api_cost |-> 5,
     save_uncompressed_to_r2 |-> FALSE, telegram_quality |-> "uncompressed",
     credits_needed |-> 0, deduction |-> "none", deducted_credits |-> 0,
     deductions |-> <<>>, refunds |-> <<>>, generations |-> 0, uploads |-> 0,
     raised_at |-> "none"]

\* The except block: a refund of deducted_credits when there is a ledger and
\* something was deducted, then the error message.
refund(r) ==
    [r EXCEPT !.refunds = IF r.convex_service /\ r.deducted_credits > 0
                          THEN Append(@, r.deducted_credits)
                          ELSE @,
              !.pc = "done"]

\* A statement of the try block raises: control goes to the except block.
raise_at(r, where) == [r EXCEPT !.pc = "except", !.raised_at = where]

HandlerIdle ==
    /\ run = NewRun
    /\ runs = 0

\* ---------------------------------------------------------------- RateLimiter
\* One clock reading serves a whole call: the readings a call makes (in the check and
\* in _cleanup_old_entries) are taken to fall on the same tick.
Users == {"A", "B"}

None == "None"

Seconds(n) == n * TicksPerSecond

\* int() of a duration given in ticks: its whole seconds, truncated towards zero.
int(d) == IF d >= 0 THEN d \div TicksPerSecond ELSE -((-d) \div TicksPerSecond)

max(a, b) == IF a >= b THEN a ELSE b

\* max() and min() of a non-empty list of timestamps.
max_of(timestamps) ==
    CHOOSE m \in {timestamps[i] : i \in DOMAIN timestamps} :
        \A i \in DOMAIN timestamps : timestamps[i] <= m

\* The entry appended last, taken for the oldest.
last_of(timestamps) == timestamps[Len(timestamps)]

min_of(timestamps) ==
    CHOOSE m \in {timestamps[i] : i \in DOMAIN timestamps} :
        \A i \in DOMAIN timestamps : timestamps[i] >= m

DefaultRateLimitConfig ==
    [messages_per_minute |-> 20, messages_per_hour |-> 100,
     generations_per_minute |-> 5, generations_per_hour |-> 30,
     generations_per_day |-> 100, cooldown_seconds |-> 60]

\* RateLimiter.__init__: no timestamps, nobody in cooldown.
NewRateLimiter ==
    [message_timestamps |-> [u \in Users |-> <<>>],
     generation_timestamps |-> [u \in Users |-> <<>>],
     cooldowns |-> [u \in {} |-> 0]]

\* RateLimitResult(allowed=True) and RateLimitResult(allowed=False, ...); the message
\* is kept without the number of seconds it quotes, and retry_after_seconds = None
\* is written -1, a value no denial carries.
Allowed == [allowed |-> TRUE, retry_after_seconds |-> -1, message |-> None]

\* What `returned` holds for a user no check has been made for.
NotChecked == [allowed |-> TRUE, retry_after_seconds |-> -1, message |-> "no check made"]

Denied(retry_after, message) ==
    [allowed |-> FALSE, retry_after_seconds |-> retry_after, message |-> message]

\* _cleanup_old_entries() that keeps one minute of history whatever age it is given.
cleanup_old_entries_minute(timestamps, max_age, t) ==
    SelectSeq(timestamps, LAMBDA ts : ts > t - Seconds(60))

\* _cleanup_old_entries(): the entries younger than max_age (in ticks) at time t.
cleanup_old_entries(timestamps, max_age, t) ==
    SelectSeq(timestamps, LAMBDA ts : ts > t - max_age)

\* A cooldown test that never ends a cooldown.
cooling_forever(rl, user_id, t) == user_id \in DOMAIN rl.cooldowns

\* A cooldown test that never holds.
cooling_never(rl, user_id, t) == FALSE

\* `user_id in self._cooldowns` and `now < cooldown_end`.
cooling(rl, user_id, t) ==
    /\ user_id \in DOMAIN rl.cooldowns
    /\ t < rl.cooldowns[user_id]

\* The cooldown branch of check_message_rate(): the denial while cooling, and
\* otherwise the limiter without the user's cooldown entry.
cooldown_denial(rl, user_id, t) ==
    Denied(int(rl.cooldowns[user_id] - t) + 1, "Rate limited")

\* The removal of every user's cooldown entry.
without_any_cooldown(rl, user_id) ==
    [rl EXCEPT !.cooldowns = [u \in {} |-> 0]]

\* `del self._cooldowns[user_id]`.
without_cooldown(rl, user_id) ==
    [rl EXCEPT !.cooldowns = [u \in DOMAIN rl.cooldowns \ {user_id} |-> rl.cooldowns[u]]]

\* A limit test that lets one more through.
limit_exceeded(count, limit) == count > limit

\* `count >= limit`, the test of every window.
limit_reached(count, limit) == count >= limit

\* check_message_rate() past the cooldown branch: prune to one hour, then the
\* per-minute and the per-hour limit.
message_windows(rl, user_id, t) ==
    LET timestamps == cleanup_old_entries(rl.message_timestamps[user_id], Seconds(3600), t)
        pruned == [rl EXCEPT !.message_timestamps[user_id] = timestamps]
        recent_minute == Len(SelectSeq(timestamps, LAMBDA ts : ts > t - Seconds(60)))
    IN  IF limit_reached(recent_minute, rate_config.messages_per_minute)
        THEN [rl |-> [pruned EXCEPT !.cooldowns =
                         [u \in DOMAIN pruned.cooldowns \cup {user_id} |->
                            IF u = user_id
                            THEN t + Seconds(rate_config.cooldown_seconds)
                            ELSE pruned.cooldowns[u]]],
              result |-> Denied(rate_config.cooldown_seconds, "Too many messages")]
        ELSE IF limit_reached(Len(timestamps), rate_config.messages_per_hour)
        THEN [rl |-> pruned,
              result |-> Denied(int(timestamps[1] + Seconds(3600) - t) + 1,
                                "Hourly message limit reached")]
        ELSE [rl |-> pruned, result |-> Allowed]

\* check_message_rate() that books the message it allows.
check_message_rate_recording(rl, user_id, t) ==
    LET r == IF cooling(rl, user_id, t)
             THEN [rl |-> rl, result |-> cooldown_denial(rl, user_id, t)]
             ELSE message_windows(without_cooldown(rl, user_id), user_id, t)
    IN  IF r.result.allowed
        THEN [r EXCEPT !.rl.message_timestamps[user_id] = Append(@, t)]
        ELSE r

\* check_message_rate(): the limiter it leaves and the RateLimitResult it returns.
check_message_rate(rl, user_id, t) ==
    IF cooling(rl, user_id, t)
    THEN [rl |-> rl, result |-> cooldown_denial(rl, user_id, t)]
    ELSE message_windows(without_cooldown(rl, user_id), user_id, t)

\* check_generation_rate() past the message check: prune to one day, then the
\* per-minute, per-hour and per-day limit.
generation_windows(rl, user_id, t) ==
    LET timestamps == cleanup_old_entries(rl.generation_timestamps[user_id],
                                          Seconds(86400), t)
        pruned == [rl EXCEPT !.generation_timestamps[user_id] = timestamps]
        in_minute == SelectSeq(timestamps, LAMBDA ts : ts > t - Seconds(60))
        in_hour == SelectSeq(timestamps, LAMBDA ts : ts > t - Seconds(3600))
    IN  IF limit_reached(Len(in_minute), rate_config.generations_per_minute)
        THEN [rl |-> pruned,
              result |-> Denied(max(60 - int(t - max_of(in_minute)), 1),
                                "Generation rate limit reached")]
        ELSE IF limit_reached(Len(in_hour), rate_config.generations_per_hour)
        THEN [rl |-> pruned,
              result |-> Denied(int(min_of(in_hour) + Seconds(3600) - t) + 1,
                                "Hourly generation limit reached")]
        ELSE IF limit_reached(Len(timestamps), rate_config.generations_per_day)
        THEN [rl |-> pruned,
              result |-> Denied(int(min_of(timestamps) + Seconds(86400) - t) + 1,
                                "Daily generation limit reached")]
        ELSE [rl |-> pruned, result |-> Allowed]

\* check_generation_rate() that goes to the generation windows at once.
check_generation_rate_undelegated(rl, user_id, t) == generation_windows(rl, user_id, t)

\* check_generation_rate(): the message check first, its denial returned as it is.
check_generation_rate(rl, user_id, t) ==
    LET msg_result == check_message_rate(rl, user_id, t)
    IN  IF ~msg_result.result.allowed
        THEN msg_result
        ELSE generation_windows(msg_result.rl, user_id, t)

record_message(rl, user_id, t) ==
    [rl EXCEPT !.message_timestamps[user_id] = Append(@, t)]

\* record_generation() that books the generation only.
record_generation_only(rl, user_id, t) ==
    [rl EXCEPT !.generation_timestamps[user_id] = Append(@, t)]

record_generation(rl, user_id, t) ==
    [rl EXCEPT !.generation_timestamps[user_id] = Append(@, t),
               !.message_timestamps[user_id] = Append(@, t)]

\* get_user_stats(): the window counts at time t; it changes nothing.
get_user_stats(rl, user_id, t) ==
    LET msg_timestamps == cleanup_old_entries(rl.message_timestamps[user_id],
                                              Seconds(3600), t)
        gen_timestamps == cleanup_old_entries(rl.generation_timestamps[user_id],
                                              Seconds(86400), t)
    IN  [messages_last_minute |->
             Len(SelectSeq(msg_timestamps, LAMBDA ts : ts > t - Seconds(60))),
         messages_last_hour |-> Len(msg_timestamps),
         generations_last_minute |->
             Len(SelectSeq(gen_timestamps, LAMBDA ts : ts > t - Seconds(60))),
         generations_last_hour |->
             Len(SelectSeq(gen_timestamps, LAMBDA ts : ts > t - Seconds(3600))),
         generations_last_day |-> Len(gen_timestamps)]

\* The rate limiter of a program that only uses the service.
LimiterUnused ==
    /\ clock = 0
    /\ rate_config = DefaultRateLimitConfig
    /\ limiter = NewRateLimiter
    /\ returned = [u \in Users |-> NotChecked]
    /\ last_call = [op |-> "none", user_id |-> None]
    /\ elapsed_steps = 0
    /\ limiter2 = NewRateLimiter
    /\ returned2 = [u \in Users |-> NotChecked]
    /\ HandlerIdle

\* ---------------------------------------------------------------- direct callers of the breaker
BreakerConfigs ==
    [failure_threshold : {1, 2, 3}, reset_timeout : {1, 2}, half_open_max_calls : {1, 2}]

DefaultRetryConfig ==
    [max_retries |-> 3, base_delay |-> 1, max_delay |-> 30, exponential_base |-> 2]

InitBreaker ==
    /\ now = 0
    /\ config \in BreakerConfigs
    /\ retry_config = DefaultRetryConfig
    /\ circuit_breaker = NewCircuitBreaker
    /\ last_op = "none"
    /\ last_ret = TRUE
    /\ prev_state = "closed"
    /\ consecutive = 0
    /\ recorded = 0
    /\ discarded = 0
    /\ InitRequests
    /\ LimiterUnused

Tick ==
    /\ now < MaxTime
    /\ now' = now + 1
    /\ last_op' = "none"
    /\ UNCHANGED <<limiter_vars, handler_vars, config, retry_config, circuit_breaker, last_ret, prev_state, consecutive,
                   recorded, discarded,
                   request_vars>>

CallCanExecute ==
    LET r == can_execute(circuit_breaker, now)
    IN  /\ circuit_breaker' = r.cb
        /\ last_ret' = r.ret
        /\ last_op' = "can_execute"
        /\ prev_state' = circuit_breaker.state
        /\ UNCHANGED <<limiter_vars, handler_vars, now, config, retry_config, consecutive, recorded, discarded,
                       request_vars>>

CallRecordSuccess ==
    /\ circuit_breaker' = record_success(circuit_breaker)
    /\ last_op' = "record_success"
    /\ prev_state' = circuit_breaker.state
    /\ consecutive' = 0
    /\ recorded' = recorded_after(TRUE)
    /\ discarded' = circuit_breaker.failure_count
    /\ UNCHANGED <<limiter_vars, handler_vars, now, config, retry_config, last_ret, request_vars>>

CallRecordFailure ==
    /\ circuit_breaker.failure_count < MaxFailures
    /\ circuit_breaker' = record_failure(circuit_breaker, now)
    /\ last_op' = "record_failure"
    /\ prev_state' = circuit_breaker.state
    /\ consecutive' = consecutive + 1
    /\ recorded' = recorded_after(FALSE)
    /\ UNCHANGED <<limiter_vars, handler_vars, now, config, retry_config, last_ret, discarded, request_vars>>

NextBreaker ==
    \/ Tick
    \/ CallCanExecute
    \/ CallRecordSuccess
    \/ CallRecordFailure

BreakerSpec == InitBreaker /\ [][NextBreaker]_vars

\* C1: after failure_threshold consecutive record_failure() calls the breaker is open,
\* and a can_execute() call made while it is open and reset_timeout has not elapsed
\* since the last recorded failure returns False.
C1_ThresholdOpens ==
    /\ (last_op = "record_failure" /\ consecutive >= config.failure_threshold)
          => circuit_breaker.state = "open"
    /\ (/\ last_op = "can_execute"
        /\ circuit_breaker.state = "open"
        /\ now - circuit_breaker.last_failure_time < config.reset_timeout)
          => last_ret = FALSE

\* Three failures in a row on a fresh breaker with failure_threshold = 3, then a
\* refused can_execute().
C1_Witness ==
    /\ config.failure_threshold = 3
    /\ consecutive = 3
    /\ circuit_breaker.failure_count = 3
    /\ circuit_breaker.state = "open"
    /\ last_op = "can_execute"
    /\ last_ret = FALSE

\* C4: can_execute() on an open breaker whose reset_timeout has elapsed returns True,
\* moves it to half-open and sets half_open_calls to 0; from half-open,
\* record_failure() moves it to open and record_success() to closed with
\* failure_count 0.
C4_HalfOpenTransitions ==
    /\ (/\ last_op = "can_execute"
        /\ prev_state = "open"
        /\ now - circuit_breaker.last_failure_time >= config.reset_timeout)
          => (/\ last_ret = TRUE
              /\ circuit_breaker.state = "half-open"
              /\ circuit_breaker.half_open_calls = 0)
    /\ (last_op = "record_failure" /\ prev_state = "half-open")
          => circuit_breaker.state = "open"
    /\ (last_op = "record_success" /\ prev_state = "half-open")
          => (circuit_breaker.state = "closed" /\ circuit_breaker.failure_count = 0)

\* A breaker that opened, was probed exactly when the timeout had elapsed, and
\* closed again on the probe's success.
C4_Witness ==
    /\ last_op = "record_success"
    /\ prev_state = "half-open"
    /\ circuit_breaker.state = "closed"
    /\ circuit_breaker.failure_count = 0
    /\ now - circuit_breaker.last_failure_time = config.reset_timeout

\* ---------------------------------------------------------------- the service under load
ServiceBreakerConfigs ==
    [failure_threshold : {1, 2}, reset_timeout : {2}, half_open_max_calls : {1}]

ServiceRetryConfigs ==
    [max_retries : {0, 1, 2}, base_delay : {1}, max_delay : {1, 30}, exponential_base : {2}]

Init ==
    /\ now = 0
    /\ config \in ServiceBreakerConfigs
    /\ retry_config \in ServiceRetryConfigs
    /\ circuit_breaker = NewCircuitBreaker
    /\ last_op = "none"
    /\ last_ret = TRUE
    /\ prev_state = "closed"
    /\ consecutive = 0
    /\ recorded = 0
    /\ discarded = 0
    /\ InitRequests
    /\ LimiterUnused

Advance ==
    /\ now < MaxTime
    /\ now' = now + 1
    /\ UNCHANGED <<limiter_vars, handler_vars, config, retry_config, breaker_vars, request_vars>>

Next ==
    \/ Advance
    \/ \E m \in Methods : Generate("a", m)
    \/ \E resp \in Responses : ExecuteReturns("a", resp)
    \/ SleepReturns("a")

Spec == Init /\ [][Next]_vars

\* C3 (as claimed): no _execute_generation call starts while the breaker is open and
\* reset_timeout has not elapsed since the last failure, retries included.
C3_NoAttemptWhileOpen ==
    [][\A r \in Requests :
         (pc[r] # "transport" /\ pc'[r] = "transport")
           => ~(/\ circuit_breaker'.state = "open"
                /\ now' - circuit_breaker'.last_failure_time < config.reset_timeout)]_vars

\* C5: a call refused by can_execute() raises the service-unavailable error with no
\* _execute_generation call and no sleep, and leaves failure_count and
\* last_failure_time as they were.
C5_RefusedCallTouchesNothing ==
    [][(/\ issued' = issued + 1
        /\ circuit_breaker.state = "open"
        /\ now - circuit_breaker.last_failure_time < config.reset_timeout)
         => (/\ \E r \in Requests :
                  /\ pc[r] \in {"idle", "done"}
                  /\ pc'[r] = "done"
                  /\ result'[r] = ServiceUnavailable
                  /\ calls'[r] = 0
                  /\ sleeps'[r] = <<>>
                  /\ \A q \in Requests \ {r} :
                       pc'[q] = pc[q] /\ calls'[q] = calls[q] /\ sleeps'[q] = sleeps[q]
             /\ circuit_breaker' = circuit_breaker)]_vars

\* A call refused while the breaker is open.
C5_Witness ==
    /\ pc["a"] = "done"
    /\ result["a"] = ServiceUnavailable
    /\ calls["a"] = 0
    /\ circuit_breaker.state = "open"
    /\ circuit_breaker.failure_count > 0

\* The exception texts that name an authentication or authorization failure or an
\* invalid input, per method.
NonRetryableTexts(m) ==
    IF m = "generate_image"
    THEN {"Unauthorized", "Forbidden", "Invalid prompt"}
    ELSE {"Unauthorized", "Forbidden", "Invalid prompt",
          "Failed to decode image data: Invalid base64-encoded string"}

\* C6: an attempt that fails with a non-retryable error ends the call at once: the
\* error is raised, and no sleep and no further _execute_generation call follow it.
C6_NonRetryableRaisedAtOnce ==
    \A r \in Requests :
      last_exception[r] \in NonRetryableTexts(method[r])
        => (/\ pc[r] = "done"
            /\ result[r] = last_exception[r]
            /\ calls[r] = attempt[r] + 1
            /\ Len(sleeps[r]) = attempt[r])

\* A non-retryable error on the second attempt, with retry budget left.
C6_Witness ==
    /\ retry_config.max_retries = 2
    /\ attempt["a"] = 1
    /\ last_exception["a"] = "Forbidden"
    /\ pc["a"] = "done"

\* C7 (as claimed): a call whose first _execute_generation call meets HTTP 401 or 403
\* ends after that one call without sleeping, and a call that ended on the text of a
\* 429, a 503 or a timeout has used all its attempts.
C7_AuthStatusNotRetried ==
    \A r \in Requests :
      /\ (/\ attempt[r] = 0
          /\ last_exception[r] \in {"FAL API Error: 401", "FAL API Error: 403"})
            => (pc[r] = "done" /\ calls[r] = 1 /\ sleeps[r] = <<>>)
      /\ (/\ pc[r] = "done"
          /\ result[r] \in {"FAL API rate limit exceeded", "FAL API service unavailable", ""})
            => attempt[r] = retry_config.max_retries

\* C8: a call makes at most max_retries + 1 _execute_generation calls and at most
\* max_retries sleeps; every sleep is finite, a call that is not over can always take
\* its next step, and it is over once its last permitted attempt has returned; with
\* max_retries = 0 it makes one call and no sleep.
C8_BoundedAttempts ==
    \A r \in Requests :
      /\ calls[r] <= retry_config.max_retries + 1
      /\ Len(sleeps[r]) <= retry_config.max_retries
      /\ attempt[r] <= retry_config.max_retries
      /\ pc[r] = "sleeping" => wake_at[r] <= now + retry_config.max_delay
      /\ pc[r] = "transport" => \A resp \in Responses : ENABLED ExecuteReturns(r, resp)
      /\ (pc[r] = "sleeping" /\ now >= wake_at[r]) => ENABLED SleepReturns(r)
      /\ (calls[r] = retry_config.max_retries + 1 /\ pc[r] # "transport") => pc[r] = "done"
      /\ retry_config.max_retries = 0
           => (/\ sleeps[r] = <<>>
               /\ pc[r] # "sleeping"
               /\ (pc[r] = "done" /\ result[r] # ServiceUnavailable) => calls[r] = 1)

\* A call that used every attempt and failed.
C8_Witness ==
    /\ retry_config.max_retries = 2
    /\ pc["a"] = "done"
    /\ calls["a"] = 3
    /\ Len(sleeps["a"]) = 2
    /\ result["a"] = "FAL API service unavailable"

\* nextDelay(n) as the retry policy defines it.
NextDelay(n) ==
    Min(retry_config.base_delay * Pow(retry_config.exponential_base, n),
        retry_config.max_delay)

\* C9: a call that succeeds after k failed attempts has made k + 1
\* _execute_generation calls and k sleeps, of nextDelay(0), ..., nextDelay(k-1).
C9_SuccessAfterRetries ==
    \A r \in Requests :
      result[r] = "image"
        => (/\ pc[r] = "done"
            /\ calls[r] = attempt[r] + 1
            /\ sleeps[r] = [i \in 1..attempt[r] |-> NextDelay(i - 1)])

\* max_retries = 2, two transient failures, then success: 3 calls, 2 sleeps.
C9_Witness ==
    /\ retry_config.max_retries = 2
    /\ retry_config.max_delay = 30
    /\ result["a"] = "image"
    /\ attempt["a"] = 2
    /\ calls["a"] = 3
    /\ sleeps["a"] = <<1, 2>>
    /\ last_exception["a"] \in {"FAL API rate limit exceeded", "FAL API service unavailable", ""}

\* C11: every _execute_generation call that completes is booked in the breaker once:
\* a success as record_success() does it, a failure (non-retryable ones included) by
\* one more failure_count and last_failure_time = now, opening the breaker when the
\* count has reached failure_threshold.
C11_EveryAttemptRecordedOnce ==
    [][\A r \in Requests :
         (pc[r] = "transport" /\ pc'[r] # "transport")
           => IF result'[r] = "image"
              THEN /\ circuit_breaker.state \in {"closed", "half-open"}
                        => (/\ circuit_breaker'.state = "closed"
                            /\ circuit_breaker'.failure_count = 0)
                   /\ circuit_breaker.state = "open" => circuit_breaker' = circuit_breaker
              ELSE /\ circuit_breaker'.failure_count = circuit_breaker.failure_count + 1
                   /\ circuit_breaker'.last_failure_time = now
                   /\ circuit_breaker'.failure_count >= config.failure_threshold
                        => circuit_breaker'.state = "open"]_vars

\* Two calls in a row that each fail once on "Unauthorized" have opened a breaker
\* with failure_threshold = 2.
C11_Witness ==
    /\ config.failure_threshold = 2
    /\ circuit_breaker.failure_count = 2
    /\ circuit_breaker.state = "open"
    /\ pc["a"] = "done"
    /\ attempt["a"] = 0
    /\ result["a"] = "Unauthorized"

\* The texts of the errors the retry loop retries.
TransientTexts ==
    {"FAL API rate limit exceeded", "FAL API service unavailable",
     "FAL API Error: 401", "FAL API Error: 403", ""}

\* A call all of whose max_retries + 1 attempts failed with retried errors.
Exhausted(r) ==
    /\ pc[r] = "done"
    /\ calls[r] = retry_config.max_retries + 1
    /\ result[r] # "image"
    /\ last_exception[r] \in TransientTexts
         \cup (IF method[r] = "generate_image"
               THEN {"Failed to decode image data: Invalid base64-encoded string"}
               ELSE {})

ConcBreakerConfigs ==
    [failure_threshold : {1, 2}, reset_timeout : {2}, half_open_max_calls : {1}]

ConcRetryConfigs ==
    [max_retries : {0, 1}, base_delay : {1}, max_delay : {30}, exponential_base : {2}]

InitConc ==
    /\ now = 0
    /\ config \in ConcBreakerConfigs
    /\ retry_config \in ConcRetryConfigs
    /\ circuit_breaker = NewCircuitBreaker
    /\ last_op = "none"
    /\ last_ret = TRUE
    /\ prev_state = "closed"
    /\ consecutive = 0
    /\ recorded = 0
    /\ discarded = 0
    /\ InitRequests
    /\ LimiterUnused

NextConc ==
    \/ Advance
    \/ \E r \in Requests : Generate(r, "generate_image")
    \/ \E r \in Requests, resp \in {"200", "503"} : ExecuteReturns(r, resp)
    \/ \E r \in Requests : SleepReturns(r)

ConcSpec == InitConc /\ [][NextConc]_vars

\* C2 (as claimed): while the breaker is half-open, can_execute() lets through at most
\* half_open_max_calls calls (the call that moved it to half-open not counted).
C2_HalfOpenLimit == half_open_admitted <= config.half_open_max_calls

\* ---------------------------------------------------------------- the retry policy
DefaultBreakerConfig ==
    [failure_threshold |-> 5, reset_timeout |-> 60, half_open_max_calls |-> 1]

RetryConfigs ==
    [max_retries : 0..3, base_delay : 1..3, max_delay : {1, 2, 4, 30}, exponential_base : 1..3]

InitRetry ==
    /\ now = 0
    /\ config = DefaultBreakerConfig
    /\ retry_config \in RetryConfigs
    /\ circuit_breaker = NewCircuitBreaker
    /\ last_op = "none"
    /\ last_ret = TRUE
    /\ prev_state = "closed"
    /\ consecutive = 0
    /\ recorded = 0
    /\ discarded = 0
    /\ InitRequests
    /\ LimiterUnused

NextRetry ==
    \/ Advance
    \/ Generate("a", "generate_image")
    \/ \E resp \in {"200", "503"} : ExecuteReturns("a", resp)
    \/ SleepReturns("a")

RetrySpec == InitRetry /\ [][NextRetry]_vars

\* C10: the backoff delay is non-decreasing in the attempt index and never exceeds
\* max_delay, for every index from 0 to max_retries and for every sleep a call makes.
C10_BackoffMonotoneCapped ==
    /\ \A n \in 0..retry_config.max_retries :
         /\ delay(n) <= retry_config.max_delay
         /\ delay(n) <= delay(n + 1)
    /\ \A r \in Requests : \A i \in 1..Len(sleeps[r]) :
         /\ sleeps[r][i] <= retry_config.max_delay
         /\ i > 1 => sleeps[r][i - 1] <= sleeps[r][i]

\* Two sleeps of one call, the second one cut down to max_delay.
C10_Witness ==
    /\ retry_config.base_delay = 3
    /\ retry_config.exponential_base = 3
    /\ retry_config.max_delay = 4
    /\ sleeps["a"] = <<3, 4>>

\* ---------------------------------------------------------------- callers of the rate limiter
\* The configuration of the per-minute test, RateLimitConfig(messages_per_minute=3,
\* cooldown_seconds=5), and one with limits small enough for every window to fill
\* and a cooldown that outlasts the hour of message history.
TestRateLimitConfig ==
    [DefaultRateLimitConfig EXCEPT !.messages_per_minute = 3, !.cooldown_seconds = 5]

SmallRateLimitConfig ==
    [messages_per_minute |-> 2, messages_per_hour |-> 3,
     generations_per_minute |-> 1, generations_per_hour |-> 2,
     generations_per_day |-> 2, cooldown_seconds |-> 7200]

RateLimitConfigs == {TestRateLimitConfig, SmallRateLimitConfig}

InitLimiter ==
    /\ now = 0
    /\ config = DefaultBreakerConfig
    /\ retry_config = DefaultRetryConfig
    /\ circuit_breaker = NewCircuitBreaker
    /\ last_op = "none"
    /\ last_ret = TRUE
    /\ prev_state = "closed"
    /\ consecutive = 0
    /\ recorded = 0
    /\ discarded = 0
    /\ InitRequests
    /\ clock = 0
    /\ rate_config \in RateLimitConfigs
    /\ limiter = NewRateLimiter
    /\ returned = [u \in Users |-> NotChecked]
    /\ last_call = [op |-> "none", user_id |-> None]
    /\ elapsed_steps = 0
    /\ limiter2 = NewRateLimiter
    /\ returned2 = [u \in Users |-> NotChecked]
    /\ HandlerIdle

\* The time that passes between two calls: a tick, 5 s, a minute, an hour, a day.
Jumps == {1, Seconds(5), Seconds(60), Seconds(3600), Seconds(86400)}

Elapse(d) ==
    /\ last_call.op # "none"
    /\ elapsed_steps < MaxElapses
    /\ clock' = clock + d
    /\ elapsed_steps' = elapsed_steps + 1
    /\ last_call' = [op |-> "none", user_id |-> None]
    /\ UNCHANGED <<service_vars, handler_vars, second_run, rate_config, limiter, returned>>

CheckMessageRate(user_id) ==
    LET r == check_message_rate(limiter, user_id, clock)
    IN  /\ limiter' = r.rl
        /\ returned' = [returned EXCEPT ![user_id] = r.result]
        /\ last_call' = [op |-> "check_message_rate", user_id |-> user_id]
        /\ UNCHANGED <<service_vars, handler_vars, second_run, clock, rate_config, elapsed_steps>>

CheckGenerationRate(user_id) ==
    LET r == check_generation_rate(limiter, user_id, clock)
    IN  /\ limiter' = r.rl
        /\ returned' = [returned EXCEPT ![user_id] = r.result]
        /\ last_call' = [op |-> "check_generation_rate", user_id |-> user_id]
        /\ UNCHANGED <<service_vars, handler_vars, second_run, clock, rate_config, elapsed_steps>>

RecordMessage(user_id) ==
    /\ Len(limiter.message_timestamps[user_id]) < MaxRecords
    /\ limiter' = record_message(limiter, user_id, clock)
    /\ last_call' = [op |-> "record_message", user_id |-> user_id]
    /\ UNCHANGED <<service_vars, handler_vars, second_run, clock, rate_config, returned, elapsed_steps>>

RecordGeneration(user_id) ==
    /\ Len(limiter.message_timestamps[user_id]) < MaxRecords
    /\ Len(limiter.generation_timestamps[user_id]) < MaxRecords
    /\ limiter' = record_generation(limiter, user_id, clock)
    /\ last_call' = [op |-> "record_generation", user_id |-> user_id]
    /\ UNCHANGED <<service_vars, handler_vars, second_run, clock, rate_config, returned, elapsed_steps>>

NextLimiter ==
    \/ \E d \in Jumps : Elapse(d)
    \/ CheckMessageRate("A")
    \/ CheckGenerationRate("A")
    \/ RecordMessage("A")
    \/ RecordGeneration("A")

LimiterSpec == InitLimiter /\ [][NextLimiter]_vars

\* The state a call for user u starts from and the one it leaves.
Called(op, u) == last_call' = [op |-> op, user_id |-> u]

\* All of u's message timestamps lie within the last minute.
AllWithinMinute(u) ==
    \A i \in DOMAIN limiter.message_timestamps[u] :
        limiter.message_timestamps[u][i] > clock - Seconds(60)

\* C13: for a user not in cooldown whose k recorded messages all lie within the last
\* minute, check_message_rate() allows while k < messages_per_minute and changes
\* nothing; with k >= messages_per_minute it denies, sets the cooldown to
\* now + cooldown_seconds and reports retry_after_seconds = cooldown_seconds.
\* (messages_per_hour is at least messages_per_minute.)
C13_MinuteLimitThenCooldown ==
    [][\A u \in Users :
         (/\ Called("check_message_rate", u)
          /\ u \notin DOMAIN limiter.cooldowns
          /\ AllWithinMinute(u)
          /\ rate_config.messages_per_hour >= rate_config.messages_per_minute)
           => IF Len(limiter.message_timestamps[u]) < rate_config.messages_per_minute
              THEN /\ returned'[u] = Allowed
                   /\ limiter' = limiter
              ELSE /\ returned'[u] = Denied(rate_config.cooldown_seconds, "Too many messages")
                   /\ u \in DOMAIN limiter'.cooldowns
                   /\ limiter'.cooldowns[u] = clock + Seconds(rate_config.cooldown_seconds)
                   /\ limiter'.message_timestamps = limiter.message_timestamps]_vars

\* messages_per_minute messages recorded by record_message() at once, and the check
\* after them denied with a fresh cooldown.
C13_Witness ==
    /\ last_call = [op |-> "check_message_rate", user_id |-> "A"]
    /\ Len(limiter.message_timestamps["A"]) = rate_config.messages_per_minute
    /\ limiter.generation_timestamps["A"] = <<>>
    /\ \A i \in DOMAIN limiter.message_timestamps["A"] :
           limiter.message_timestamps["A"][i] = clock
    /\ returned["A"] = Denied(rate_config.cooldown_seconds, "Too many messages")
    /\ limiter.cooldowns = [u \in {"A"} |-> clock + Seconds(rate_config.cooldown_seconds)]

\* The user's cooldown has run out (its entry is still there), and the user has the
\* messages_per_minute messages of the denial and none since.
CooldownElapsed(u) ==
    /\ u \in DOMAIN limiter.cooldowns
    /\ clock >= limiter.cooldowns[u]
    /\ Len(limiter.message_timestamps[u]) = rate_config.messages_per_minute
    /\ \A i \in DOMAIN limiter.message_timestamps[u] :
           limiter.message_timestamps[u][i]
             <= limiter.cooldowns[u] - Seconds(rate_config.cooldown_seconds)

\* C14 (as claimed): a check_message_rate() made once cooldown_seconds have passed
\* since the per-minute denial, with no message recorded since, is allowed.
C14_AllowedOnceCooldownElapsed ==
    [][\A u \in Users :
         (Called("check_message_rate", u) /\ CooldownElapsed(u))
           => returned'[u].allowed]_vars

\* C14 (amended): such a check is allowed only if the messages have also left the
\* 60-second window (and the hourly limit is not reached); while messages_per_minute
\* of them are younger than 60 s it is denied again, with retry_after_seconds =
\* cooldown_seconds and a cooldown that starts anew.
C14_AllowedOnceWindowElapsed ==
    [][\A u \in Users :
         (Called("check_message_rate", u) /\ CooldownElapsed(u))
           => LET stats == get_user_stats(limiter, u, clock)
              IN  IF stats.messages_last_minute >= rate_config.messages_per_minute
                  THEN /\ returned'[u]
                            = Denied(rate_config.cooldown_seconds, "Too many messages")
                       /\ u \in DOMAIN limiter'.cooldowns
                       /\ limiter'.cooldowns[u]
                            = clock + Seconds(rate_config.cooldown_seconds)
                  ELSE /\ u \notin DOMAIN limiter'.cooldowns
                       /\ stats.messages_last_hour < rate_config.messages_per_hour
                            => returned'[u] = Allowed]_vars

\* messages_per_minute = 3, cooldown_seconds = 5: three messages at time 0, denied at
\* time 0, and the check at 5 s denied again.
C14_Witness ==
    /\ rate_config = TestRateLimitConfig
    /\ clock = Seconds(5)
    /\ limiter.message_timestamps["A"] = <<0, 0, 0>>
    /\ last_call = [op |-> "check_message_rate", user_id |-> "A"]
    /\ returned["A"] = Denied(5, "Too many messages")
    /\ limiter.cooldowns = [u \in {"A"} |-> Seconds(10)]

\* C15: while a user's cooldown end lies in the future, check_message_rate() and
\* check_generation_rate() for the user are denied as "Rate limited", whatever the
\* user's timestamps are; retry_after_seconds is a whole number of seconds that
\* covers the rest of the cooldown and exceeds it by at most a second; and the call
\* changes nothing in the limiter, the cooldown end included.
C15_DeniedWhileCooling ==
    [][\A u \in Users :
         (/\ Called("check_message_rate", u) \/ Called("check_generation_rate", u)
          /\ u \in DOMAIN limiter.cooldowns
          /\ clock < limiter.cooldowns[u])
           => LET remaining == limiter.cooldowns[u] - clock
              IN  /\ ~returned'[u].allowed
                  /\ returned'[u].message = "Rate limited"
                  /\ Seconds(returned'[u].retry_after_seconds) > remaining
                  /\ Seconds(returned'[u].retry_after_seconds) <= remaining + TicksPerSecond
                  /\ limiter' = limiter]_vars

\* A check_generation_rate() denied by a cooldown that is still running when every
\* window of the user is empty.
C15_Witness ==
    /\ last_call = [op |-> "check_generation_rate", user_id |-> "A"]
    /\ "A" \in DOMAIN limiter.cooldowns
    /\ clock < limiter.cooldowns["A"]
    /\ limiter.message_timestamps["A"] # <<>>
    /\ get_user_stats(limiter, "A", clock)
         = [messages_last_minute |-> 0, messages_last_hour |-> 0,
            generations_last_minute |-> 0, generations_last_hour |-> 0,
            generations_last_day |-> 0]
    /\ returned["A"].message = "Rate limited"
    /\ returned["A"].retry_after_seconds = 3601

GenerationDenials ==
    {"Generation rate limit reached", "Hourly generation limit reached",
     "Daily generation limit reached"}

\* C16: check_generation_rate() returns what check_message_rate() returns when that
\* denies, and then leaves the limiter as check_message_rate() leaves it, the
\* generation timestamps untouched; otherwise a denial it returns is one of the three
\* generation limits, and it puts no cooldown in force: the cooldowns stay as the
\* message check left them (the user's entry, if it had run out, removed).
C16_DelegatesToMessageCheck ==
    [][\A u \in Users :
         Called("check_generation_rate", u)
           => LET msg_result == check_message_rate(limiter, u, clock)
              IN  IF ~msg_result.result.allowed
                  THEN /\ returned'[u] = msg_result.result
                       /\ limiter' = msg_result.rl
                       /\ limiter'.generation_timestamps = limiter.generation_timestamps
                  ELSE /\ limiter'.cooldowns = msg_result.rl.cooldowns
                       /\ u \notin DOMAIN limiter'.cooldowns
                       /\ limiter'.message_timestamps = msg_result.rl.message_timestamps
                       /\ ~returned'[u].allowed
                            => returned'[u].message \in GenerationDenials]_vars

\* Two generations 5 s apart, and the check a minute after the second denied by the
\* hourly generation limit with nobody in cooldown.
C16_Witness ==
    /\ last_call = [op |-> "check_generation_rate", user_id |-> "A"]
    /\ returned["A"].message = "Hourly generation limit reached"
    /\ limiter.generation_timestamps["A"] = <<0, Seconds(5)>>
    /\ clock = Seconds(65)
    /\ DOMAIN limiter.cooldowns = {}

\* C17: record_generation() appends the time of the call to the user's generation
\* timestamps and to the user's message timestamps, so both per-minute counts are one
\* higher after it; and when all of a user's messages are generations, there are
\* messages_per_minute of them and all lie within the last minute,
\* check_message_rate() denies.
C17_GenerationCountsAsMessage ==
    [][\A u \in Users :
         /\ Called("record_generation", u)
              => LET before == get_user_stats(limiter, u, clock)
                     after == get_user_stats(limiter', u, clock')
                 IN  /\ limiter'.generation_timestamps[u]
                          = Append(limiter.generation_timestamps[u], clock)
                     /\ limiter'.message_timestamps[u]
                          = Append(limiter.message_timestamps[u], clock)
                     /\ after.messages_last_minute = before.messages_last_minute + 1
                     /\ after.generations_last_minute = before.generations_last_minute + 1
         /\ (/\ Called("check_message_rate", u)
             /\ limiter.message_timestamps[u] = limiter.generation_timestamps[u]
             /\ Len(limiter.generation_timestamps[u]) = rate_config.messages_per_minute
             /\ AllWithinMinute(u))
              => ~returned'[u].allowed]_vars

\* Three generations and no other message, and the message check after them denied
\* by the per-minute message limit.
C17_Witness ==
    /\ rate_config = TestRateLimitConfig
    /\ last_call = [op |-> "check_message_rate", user_id |-> "A"]
    /\ Len(limiter.generation_timestamps["A"]) = 3
    /\ limiter.message_timestamps["A"] = limiter.generation_timestamps["A"]
    /\ returned["A"] = Denied(5, "Too many messages")
    /\ clock < Seconds(60)
    /\ clock > 0

\* How many entries of a list equal ts, and how many are younger than age.
Occurrences(timestamps, ts) ==
    Cardinality({i \in DOMAIN timestamps : timestamps[i] = ts})

Younger(timestamps, age) ==
    Cardinality({i \in DOMAIN timestamps : timestamps[i] > clock - age})

\* C18: in every state and for every user, a generation timestamp younger than an hour
\* occurs in the user's message timestamps as often as in the generation timestamps,
\* so the generation counts of the last minute and of the last hour do not exceed the
\* message counts of the same windows.
C18_GenerationsAreMessages ==
    \A u \in Users :
        LET generations == limiter.generation_timestamps[u]
            messages == limiter.message_timestamps[u]
        IN  /\ \A i \in DOMAIN generations :
                   generations[i] > clock - Seconds(3600)
                     => Occurrences(generations, generations[i])
                          <= Occurrences(messages, generations[i])
            /\ Younger(generations, Seconds(60)) <= Younger(messages, Seconds(60))
            /\ Younger(generations, Seconds(3600)) <= Younger(messages, Seconds(3600))

\* After a check an hour later has pruned the message of the first generation: the
\* generation list still holds it, the message list holds the second one only.
C18_Witness ==
    /\ last_call = [op |-> "check_generation_rate", user_id |-> "A"]
    /\ clock = Seconds(3600)
    /\ limiter.generation_timestamps["A"] = <<0, Seconds(3600)>>
    /\ limiter.message_timestamps["A"] = <<Seconds(3600)>>

\* C20: a check_message_rate() or check_generation_rate() for a user adds no
\* timestamp: each list of the user is left as it was or without its entries that
\* have left the list's history (an hour of messages, a day of generations), so no
\* window count changes; other users' data are untouched; and the cooldowns change
\* only by the user's entry, which is set to now + cooldown_seconds by the per-minute
\* message denial or removed once it has run out. A user without any timestamp is
\* allowed by every check.
C20_ChecksOnlyPruneAndCool ==
    [][\A u \in Users :
         (Called("check_message_rate", u) \/ Called("check_generation_rate", u))
           => LET messages == limiter.message_timestamps[u]
                  generations == limiter.generation_timestamps[u]
                  messages_after == limiter'.message_timestamps[u]
                  generations_after == limiter'.generation_timestamps[u]
              IN  /\ messages_after
                       \in {messages,
                            SelectSeq(messages, LAMBDA ts : ts > clock - Seconds(3600))}
                  /\ generations_after
                       \in {generations,
                            SelectSeq(generations, LAMBDA ts : ts > clock - Seconds(86400))}
                  /\ \A age \in {Seconds(60), Seconds(3600)} :
                         Younger(messages_after, age) = Younger(messages, age)
                  /\ \A age \in {Seconds(60), Seconds(3600), Seconds(86400)} :
                         Younger(generations_after, age) = Younger(generations, age)
                  /\ \A v \in Users \ {u} :
                         /\ limiter'.message_timestamps[v] = limiter.message_timestamps[v]
                         /\ limiter'.generation_timestamps[v]
                              = limiter.generation_timestamps[v]
                         /\ returned'[v] = returned[v]
                         /\ (v \in DOMAIN limiter'.cooldowns) = (v \in DOMAIN limiter.cooldowns)
                         /\ v \in DOMAIN limiter.cooldowns
                              => limiter'.cooldowns[v] = limiter.cooldowns[v]
                  /\ \/ limiter'.cooldowns = limiter.cooldowns
                     \/ /\ u \in DOMAIN limiter.cooldowns
                        /\ clock >= limiter.cooldowns[u]
                        /\ u \notin DOMAIN limiter'.cooldowns
                     \/ /\ u \in DOMAIN limiter'.cooldowns
                        /\ limiter'.cooldowns[u]
                             = clock + Seconds(rate_config.cooldown_seconds)
                        /\ returned'[u].message = "Too many messages"
                        /\ Younger(messages, Seconds(60)) >= rate_config.messages_per_minute
                  /\ (messages = <<>> /\ generations = <<>>)
                       => (returned'[u] = Allowed /\ limiter' = limiter)]_vars

\* Checks of both kinds, at different times, for a user nothing was recorded for.
C20_Witness ==
    /\ last_call = [op |-> "check_generation_rate", user_id |-> "A"]
    /\ limiter = NewRateLimiter
    /\ returned["A"] = Allowed
    /\ elapsed_steps = MaxElapses
    /\ clock = Seconds(10)

\* ---------------------------------------------------------------- two runs side by side
\* Two runs of the program with the same configuration and the same clock. User A
\* makes the same calls at the same times in both; user B makes calls in the first
\* run only, so the second shows what A gets when B does nothing.
Ops == {"check_message_rate", "check_generation_rate", "record_message", "record_generation"}

\* The limiter and the last results after user_id's call op at time t.
after(op, rl, results, user_id, t) ==
    CASE op = "check_message_rate" ->
           LET r == check_message_rate(rl, user_id, t)
           IN  [rl |-> r.rl, returned |-> [results EXCEPT ![user_id] = r.result]]
      [] op = "check_generation_rate" ->
           LET r == check_generation_rate(rl, user_id, t)
           IN  [rl |-> r.rl, returned |-> [results EXCEPT ![user_id] = r.result]]
      [] op = "record_message" ->
           [rl |-> record_message(rl, user_id, t), returned |-> results]
      [] op = "record_generation" ->
           [rl |-> record_generation(rl, user_id, t), returned |-> results]

InBothRuns(op) ==
    /\ op \in {"record_message", "record_generation"}
         => /\ Len(limiter.message_timestamps["A"]) < MaxRecords
            /\ Len(limiter2.message_timestamps["A"]) < MaxRecords
    /\ op = "record_generation"
         => /\ Len(limiter.generation_timestamps["A"]) < MaxRecords
            /\ Len(limiter2.generation_timestamps["A"]) < MaxRecords
    /\ LET first == after(op, limiter, returned, "A", clock)
           second == after(op, limiter2, returned2, "A", clock)
       IN  /\ limiter' = first.rl
           /\ returned' = first.returned
           /\ limiter2' = second.rl
           /\ returned2' = second.returned
    /\ last_call' = [op |-> op, user_id |-> "A"]
    /\ UNCHANGED <<service_vars, handler_vars, clock, rate_config, elapsed_steps>>

\* A call of user B, made in the first run only; B records as many generations as
\* fill B's per-minute message limit.
InFirstRunOnly(op) ==
    /\ op = "record_generation"
         => Len(limiter.message_timestamps["B"]) < rate_config.messages_per_minute
    /\ LET first == after(op, limiter, returned, "B", clock)
       IN  /\ limiter' = first.rl
           /\ returned' = first.returned
    /\ last_call' = [op |-> op, user_id |-> "B"]
    /\ UNCHANGED <<service_vars, handler_vars, second_run, clock, rate_config, elapsed_steps>>

InitIso ==
    /\ InitLimiter
    /\ rate_config = SmallRateLimitConfig

NextIso ==
    \/ \E d \in {Seconds(60)} : Elapse(d)
    \/ \E op \in Ops \ {"record_message"} : InBothRuns(op)
    \/ \E op \in {"check_generation_rate", "record_generation"} : InFirstRunOnly(op)

IsoSpec == InitIso /\ [][NextIso]_vars

\* What the limiter holds about a user.
OwnData(rl, u) ==
    [message_timestamps |-> rl.message_timestamps[u],
     generation_timestamps |-> rl.generation_timestamps[u],
     cooldown |-> IF u \in DOMAIN rl.cooldowns THEN {rl.cooldowns[u]} ELSE {}]

\* C19: in two runs in which A makes the same calls at the same times, A's last
\* RateLimitResult and the limiter's data about A are the same, whatever records and
\* checks B makes in one of them and not in the other.
C19_OtherUserHasNoInfluence ==
    /\ returned["A"] = returned2["A"]
    /\ OwnData(limiter, "A") = OwnData(limiter2, "A")

\* B is in cooldown in the first run and unknown to the second, and A's check at
\* that time, after a generation of A's own, is allowed in both.
C19_Witness ==
    /\ last_call = [op |-> "check_message_rate", user_id |-> "A"]
    /\ "B" \in DOMAIN limiter.cooldowns
    /\ clock < limiter.cooldowns["B"]
    /\ returned["B"].message = "Too many messages"
    /\ OwnData(limiter2, "B") = OwnData(NewRateLimiter, "B")
    /\ limiter.generation_timestamps["A"] = <<clock>>
    /\ returned["A"] = Allowed
    /\ returned2["A"] = Allowed

\* ---------------------------------------------------------------- the wait a denial reports
Checks == {"check_message_rate", "check_generation_rate"}

\* The smallest entry of a non-empty list.
Oldest(timestamps) ==
    CHOOSE m \in {timestamps[i] : i \in DOMAIN timestamps} :
        \A i \in DOMAIN timestamps : m <= timestamps[i]

\* retry_after is a number of seconds that outlasts a wait given in ticks, by a
\* second at most.
Covers(retry_after, wait) ==
    /\ Seconds(retry_after) > wait
    /\ Seconds(retry_after) <= wait + TicksPerSecond

\* C21: right after a check that was denied by the hourly message limit,
\* retry_after_seconds covers the time until the user's oldest message timestamp is an
\* hour old; after one denied by the daily generation limit, which takes
\* generations_per_day timestamps younger than a day, it covers the time until the
\* oldest of them is a day old; and in both cases the user has no cooldown entry.
C21_LongWindowWait ==
    \A u \in Users :
        (last_call.user_id = u /\ last_call.op \in Checks)
          => /\ returned[u].message = "Hourly message limit reached"
                  => /\ Covers(returned[u].retry_after_seconds,
                                Oldest(limiter.message_timestamps[u]) + Seconds(3600) - clock)
                     /\ u \notin DOMAIN limiter.cooldowns
             /\ returned[u].message = "Daily generation limit reached"
                  => /\ Len(limiter.generation_timestamps[u]) >= rate_config.generations_per_day
                     /\ Covers(returned[u].retry_after_seconds,
                                Oldest(limiter.generation_timestamps[u])
                                  + Seconds(86400) - clock)
                     /\ u \notin DOMAIN limiter.cooldowns

\* generations_per_day = 2: generations at 0 and at 5 s, and the check at 1 h 5 s
\* denied by the daily limit until the first is a day old.
C21_Witness ==
    /\ last_call = [op |-> "check_generation_rate", user_id |-> "A"]
    /\ limiter.generation_timestamps["A"] = <<0, Seconds(5)>>
    /\ clock = Seconds(3605)
    /\ returned["A"] = Denied(82796, "Daily generation limit reached")
    /\ DOMAIN limiter.cooldowns = {}

\* A wait given in ticks, rounded up to whole seconds.
RoundedUp(wait) == (wait + TicksPerSecond - 1) \div TicksPerSecond

\* The n-th newest entry of an append-ordered list: when it leaves a window, fewer
\* than n entries are left in the window.
NthNewest(timestamps, n) == timestamps[Len(timestamps) - n + 1]

\* The time, right after a denied check for u, until the reason of the denial is gone.
RemainingWait(u) ==
    LET message == returned[u].message
        messages == limiter.message_timestamps[u]
        generations == limiter.generation_timestamps[u]
    IN  CASE message \in {"Rate limited", "Too many messages"} ->
               limiter.cooldowns[u] - clock
          [] message = "Hourly message limit reached" ->
               NthNewest(messages, rate_config.messages_per_hour) + Seconds(3600) - clock
          [] message = "Generation rate limit reached" ->
               NthNewest(generations, rate_config.generations_per_minute)
                 + Seconds(60) - clock
          [] message = "Hourly generation limit reached" ->
               NthNewest(generations, rate_config.generations_per_hour)
                 + Seconds(3600) - clock
          [] message = "Daily generation limit reached" ->
               NthNewest(generations, rate_config.generations_per_day)
                 + Seconds(86400) - clock

\* C22 (as claimed): right after a denied check, on each of the six denial paths,
\* retry_after_seconds is the remaining wait rounded up to whole seconds, and at
\* least 1.
C22_RetryAfterRoundedUp ==
    \A u \in Users :
        (last_call.user_id = u /\ last_call.op \in Checks /\ ~returned[u].allowed)
          => /\ returned[u].retry_after_seconds >= 1
             /\ returned[u].retry_after_seconds = RoundedUp(RemainingWait(u))

\* ---------------------------------------------------------------- the generation handler
\* The user the runs are made for.
Caller == "A"

\* What get_user_settings() returns and the cost of the model chosen: no credits or
\* some, the cheapest model, a mid-priced one or the default cost.
UserSettings ==
    [user_credits : {0, 1000000}, api_cost : {5, 30, 50},
     save_uncompressed_to_r2 : BOOLEAN, telegram_quality : {"compressed", "uncompressed"}]

\* The first statements of run_generation_safe(): the status message, the settings
\* and the credits gate.
StartRun(settings) ==
    /\ run.pc \in {"idle", "done"}
    /\ runs < MaxRuns
    /\ runs' = runs + 1
    /\ run' = [NewRun EXCEPT
                  !.convex_service = run.convex_service,
                  !.user_credits = settings.user_credits,
                  !.api_cost = settings.api_cost,
                  !.save_uncompressed_to_r2 = settings.save_uncompressed_to_r2,
                  !.telegram_quality = settings.telegram_quality,
                  !.credits_needed =
                      credits_needed(settings.api_cost, settings.save_uncompressed_to_r2),
                  !.pc = IF run.convex_service
                         THEN IF settings.user_credits <= 0 THEN "done" ELSE "deduct"
                         ELSE "generate"]
    /\ UNCHANGED <<service_vars, limiter_vars>>

\* deduct_credits_with_log() returns success, returns a refusal (the handler reports
\* it and returns), or raises; a report of the refusal that raises ends in the
\* except block like a raising call, with nothing deducted.
Deduct(outcome) ==
    /\ run.pc = "deduct"
    /\ run' = CASE outcome = "success" ->
                    [run EXCEPT !.deduction = outcome,
                                !.deducted_credits = run.credits_needed,
                                !.deductions = Append(@, run.credits_needed),
                                !.pc = "announce"]
               [] outcome = "refused" -> [run EXCEPT !.deduction = outcome, !.pc = "done"]
               [] outcome = "raises" -> [raise_at(run, "deduct") EXCEPT !.deduction = outcome]
    /\ UNCHANGED <<service_vars, limiter_vars, runs>>

\* A statement of the try block that has no effect of its own in the model returns
\* or raises: the "Generating" edit, the image processing, the re-encoding for
\* Telegram (skipped for compressed delivery).
Steps ==
    [announce |-> "generate", process |-> "upload", encode |-> "send"]

Step(ok) ==
    /\ run.pc \in DOMAIN Steps
    /\ run' = IF ok \/ (run.pc = "encode" /\ run.telegram_quality = "compressed")
              THEN [run EXCEPT !.pc = Steps[run.pc]]
              ELSE raise_at(run, run.pc)
    /\ UNCHANGED <<service_vars, limiter_vars, runs>>

\* fal_service.generate_image() returns the image or raises.
GenerateImage(ok) ==
    /\ run.pc = "generate"
    /\ run' = IF ok
              THEN [run EXCEPT !.generations = @ + 1, !.pc = "process"]
              ELSE [raise_at(run, "generate") EXCEPT !.generations = @ + 1]
    /\ UNCHANGED <<service_vars, limiter_vars, runs>>

\* r2_service.upload_file() of the compressed image, and of the full one when the
\* user stores uncompressed.
Upload(ok) ==
    /\ run.pc \in {"upload", "upload_full"}
    /\ run' = IF ok
              THEN [run EXCEPT !.uploads = @ + 1,
                               !.pc = IF run.pc = "upload" /\ run.save_uncompressed_to_r2
                                      THEN "upload_full"
                                      ELSE "encode"]
              ELSE raise_at(run, run.pc)
    /\ UNCHANGED <<service_vars, limiter_vars, runs>>

\* The inner try block that sends the photo: it succeeds, or it raises and the inner
\* except block edits the status message, which succeeds or raises in turn.
Send(outcome) ==
    /\ run.pc = "send"
    /\ run' = IF outcome \in {"sent", "reported"}
              THEN [run EXCEPT !.pc = "done"]
              ELSE raise_at(run, "send")
    /\ UNCHANGED <<service_vars, limiter_vars, runs>>

Except ==
    /\ run.pc = "except"
    /\ run' = refund(run)
    /\ UNCHANGED <<service_vars, limiter_vars, runs>>

InitHandler ==
    /\ now = 0
    /\ config = DefaultBreakerConfig
    /\ retry_config = DefaultRetryConfig
    /\ circuit_breaker = NewCircuitBreaker
    /\ last_op = "none"
    /\ last_ret = TRUE
    /\ prev_state = "closed"
    /\ consecutive = 0
    /\ recorded = 0
    /\ discarded = 0
    /\ InitRequests
    /\ clock = 0
    /\ rate_config = DefaultRateLimitConfig
    /\ limiter = NewRateLimiter
    /\ returned = [u \in Users |-> NotChecked]
    /\ last_call = [op |-> "none", user_id |-> None]
    /\ elapsed_steps = 0
    /\ limiter2 = NewRateLimiter
    /\ returned2 = [u \in Users |-> NotChecked]
    /\ \E present \in BOOLEAN : run = [NewRun EXCEPT !.convex_service = present]
    /\ runs = 0

NextHandler ==
    \/ \E settings \in UserSettings : StartRun(settings)
    \/ \E outcome \in {"success", "refused", "raises"} : Deduct(outcome)
    \/ \E ok \in BOOLEAN : Step(ok)
    \/ \E ok \in BOOLEAN : GenerateImage(ok)
    \/ \E ok \in BOOLEAN : Upload(ok)
    \/ \E outcome \in {"sent", "reported", "raises"} : Send(outcome)
    \/ Except

HandlerSpec == InitHandler /\ [][NextHandler]_vars

\* C23 (as claimed): a run of the chat-command handler that has attempted a
\* generation has asked the rate limiter first, was allowed, and has recorded the
\* generation for the user.
C23_GenerationsRateLimited ==
    run.generations > 0
      => /\ returned[Caller] # NotChecked
         /\ returned[Caller].allowed
         /\ Len(limiter.generation_timestamps[Caller]) >= run.generations

\* The sum of the amounts of a list of ledger calls.
RECURSIVE Total(_)
Total(amounts) ==
    IF amounts = <<>> THEN 0 ELSE Head(amounts) + Total(Tail(amounts))

\* The run is over and its generation and its uploads have succeeded.
GeneratedAndUploaded ==
    /\ run.pc = "done"
    /\ run.uploads = (IF run.save_uncompressed_to_r2 THEN 2 ELSE 1)

\* C30 (as claimed): at the end of a run with a ledger, a raise of the generation,
\* the image processing or an upload after a successful deduction has issued exactly
\* one refund of the deducted amount; a deduction that did not succeed has led to no
\* generation and no refund; a run whose generation and uploads succeeded has issued
\* no refund; and the net ledger change is minus the cost or zero.
C30_CreditsConserved ==
    (run.pc = "done" /\ run.convex_service)
      => /\ (run.deduction = "success"
               /\ run.raised_at \in {"generate", "process", "upload", "upload_full"})
              => run.refunds = <<run.deducted_credits>>
         /\ run.deduction # "success"
              => (run.generations = 0 /\ run.refunds = <<>>)
         /\ GeneratedAndUploaded => run.refunds = <<>>
         /\ Total(run.refunds) - Total(run.deductions) \in {0 - run.credits_needed, 0}

\* ---------------------------------------------------------------- the breaker's count and states
\* C24: record_success() on a closed breaker leaves it closed with failure_count 0, so
\* only the failures since then count: when the last record_success() found fewer
\* than failure_threshold failures (it found the breaker closed, since an open or
\* half-open breaker holds at least failure_threshold) and fewer than
\* failure_threshold record_failure() calls followed it, the breaker is closed,
\* failure_count is the number of those calls and can_execute() returns True.
C24_SuccessForgetsFailures ==
    /\ (last_op = "record_success" /\ prev_state = "closed")
          => (circuit_breaker.state = "closed" /\ circuit_breaker.failure_count = 0)
    /\ (discarded < config.failure_threshold /\ consecutive < config.failure_threshold)
          => /\ circuit_breaker.state = "closed"
             /\ circuit_breaker.failure_count = consecutive
             /\ can_execute(circuit_breaker, now).ret

\* failure_threshold = 3: two failures, a success, two more failures, and a
\* can_execute() that returned True on the closed breaker.
C24_Witness ==
    /\ config.failure_threshold = 3
    /\ discarded = 2
    /\ consecutive = 2
    /\ circuit_breaker.failure_count = 2
    /\ circuit_breaker.state = "closed"
    /\ last_op = "can_execute"
    /\ last_ret = TRUE

\* C25: with requests that share the breaker and interleave at their awaits only,
\* failure_count is the number of record_failure() calls made since it was last set
\* to 0: no update is lost.
C25_NoFailureLost ==
    circuit_breaker.failure_count = recorded

\* failure_threshold = 1 and no time has passed: two requests were in flight
\* together, the failure of the first opened the breaker and the failure of the
\* second was counted as well.
C25_Witness ==
    /\ config.failure_threshold = 1
    /\ now = 0
    /\ pc["a"] = "done" /\ result["a"] = "FAL API service unavailable"
    /\ pc["b"] = "done" /\ result["b"] = "FAL API service unavailable"
    /\ circuit_breaker.failure_count = 2
    /\ recorded = 2

\* C28: an _execute_generation call that fails while the breaker is already open
\* (its request was in flight when the breaker opened, or it is a retry) leaves the
\* breaker open, adds one to failure_count and sets last_failure_time to the current
\* time, so that can_execute() refuses until reset_timeout has passed since this
\* failure.
C28_FailureWhileOpenRestartsTimeout ==
    [][\A r \in Requests :
         (/\ pc[r] = "transport"
          /\ pc'[r] # "transport"
          /\ result'[r] # "image"
          /\ circuit_breaker.state = "open")
           => /\ circuit_breaker'.state = "open"
              /\ circuit_breaker'.failure_count = circuit_breaker.failure_count + 1
              /\ circuit_breaker'.last_failure_time = now
              /\ \A t \in now .. MaxTime + 1 :
                    can_execute(circuit_breaker', t).ret <=> t - now >= config.reset_timeout]_vars

\* failure_threshold = 1: the breaker opened at time 0 and a second failure, one
\* second later and before any probe was possible, moved last_failure_time to 1.
C28_Witness ==
    /\ config.failure_threshold = 1
    /\ circuit_breaker.state = "open"
    /\ circuit_breaker.failure_count = 2
    /\ circuit_breaker.last_failure_time = 1
    /\ now = 1

\* The state changes the breaker may make.
Transitions ==
    {<<"closed", "open">>, <<"open", "half-open">>,
     <<"half-open", "open">>, <<"half-open", "closed">>}

\* C29: the breaker's state is closed, open or half-open, failure_count is not
\* negative, a closed breaker holds fewer than failure_threshold failures, and a call
\* on the breaker either keeps the state or makes one of the four transitions
\* closed -> open, open -> half-open, half-open -> open, half-open -> closed.
C29_StatesAndTransitions ==
    /\ circuit_breaker.state \in {"closed", "open", "half-open"}
    /\ circuit_breaker.failure_count >= 0
    /\ circuit_breaker.state = "closed"
          => circuit_breaker.failure_count < config.failure_threshold
    /\ prev_state # circuit_breaker.state
          => <<prev_state, circuit_breaker.state>> \in Transitions

\* failure_threshold = 2: the breaker was opened, probed after the timeout and has
\* just been closed by a record_success() that found two failures counted.
C29_Witness ==
    /\ config.failure_threshold = 2
    /\ last_op = "record_success"
    /\ prev_state = "half-open"
    /\ circuit_breaker.state = "closed"
    /\ discarded = 2
    /\ recorded = 0

\* ---------------------------------------------------------------- a caller that checks before it records
\* The small configuration, and one whose hourly limits fill as early as the
\* per-minute ones.
HourlyRateLimitConfig ==
    [SmallRateLimitConfig EXCEPT !.messages_per_hour = 2, !.generations_per_hour = 1]

InitDisciplined ==
    /\ InitLimiter
    /\ rate_config \in {SmallRateLimitConfig, HourlyRateLimitConfig}

\* Time passes between two calls of the caller, also between a check and the record
\* that follows it.
Wait(d) ==
    /\ elapsed_steps < MaxElapses
    /\ clock' = clock + d
    /\ elapsed_steps' = elapsed_steps + 1
    /\ UNCHANGED <<service_vars, handler_vars, second_run, rate_config, limiter, returned,
                   last_call>>

\* The caller's last call for the user was a check of the given kind, and it allowed.
Permitted(check, user_id) ==
    /\ last_call = [op |-> check, user_id |-> user_id]
    /\ returned[user_id].allowed

RecordPermittedMessage(user_id) ==
    /\ Permitted("check_message_rate", user_id)
    /\ RecordMessage(user_id)

RecordPermittedGeneration(user_id) ==
    /\ Permitted("check_generation_rate", user_id)
    /\ RecordGeneration(user_id)

NextDisciplined ==
    \/ \E d \in Jumps : Wait(d)
    \/ CheckMessageRate("A")
    \/ CheckGenerationRate("A")
    \/ RecordPermittedMessage("A")
    \/ RecordPermittedGeneration("A")

DisciplinedSpec == InitDisciplined /\ [][NextDisciplined]_vars

\* C26: for a caller that records a message or a generation only right after an
\* allowed check of the same kind for the same user, every user's recorded messages
\* younger than a minute and younger than an hour, and recorded generations younger
\* than a minute, an hour and a day, number at most the configured limits.
C26_CountsWithinLimits ==
    \A u \in Users :
        /\ Younger(limiter.message_timestamps[u], Seconds(60))
              <= rate_config.messages_per_minute
        /\ Younger(limiter.message_timestamps[u], Seconds(3600))
              <= rate_config.messages_per_hour
        /\ Younger(limiter.generation_timestamps[u], Seconds(60))
              <= rate_config.generations_per_minute
        /\ Younger(limiter.generation_timestamps[u], Seconds(3600))
              <= rate_config.generations_per_hour
        /\ Younger(limiter.generation_timestamps[u], Seconds(86400))
              <= rate_config.generations_per_day

\* Two permitted generations an hour apart fill the day, and the check made another
\* hour later is denied on the daily limit.
C26_Witness ==
    /\ Younger(limiter.generation_timestamps["A"], Seconds(86400))
          = rate_config.generations_per_day
    /\ Younger(limiter.generation_timestamps["A"], Seconds(3600)) = 0
    /\ last_call = [op |-> "check_generation_rate", user_id |-> "A"]
    /\ returned["A"].message = "Daily generation limit reached"

\* ---------------------------------------------------------------- the end of every denial
\* The timestamps the limiter holds for a user, and the time after the newest of them
\* by which every window has emptied and every cooldown armed on them has run out:
\* a day, or the minute in which a check can still arm the cooldown plus its length.
Held(u) ==
    {limiter.message_timestamps[u][i] : i \in DOMAIN limiter.message_timestamps[u]}
      \cup {limiter.generation_timestamps[u][i] : i \in DOMAIN limiter.generation_timestamps[u]}

LockoutBound ==
    IF 86400 >= 60 + rate_config.cooldown_seconds
    THEN Seconds(86400)
    ELSE Seconds(60 + rate_config.cooldown_seconds)

\* C27: whatever was recorded and however often the user was checked, once
\* LockoutBound has passed since the newest timestamp held for the user (or none is
\* held), check_message_rate() and check_generation_rate() both allow.
C27_NeverLockedOut ==
    \A u \in Users :
        (\A ts \in Held(u) : clock >= ts + LockoutBound)
          => /\ check_message_rate(limiter, u, clock).result.allowed
             /\ check_generation_rate(limiter, u, clock).result.allowed

\* A user denied on the per-minute limit, whose cooldown entry and timestamps are
\* still held a day after the last record.
C27_Witness ==
    /\ ~returned["A"].allowed
    /\ "A" \in DOMAIN limiter.cooldowns
    /\ Held("A") # {}
    /\ \A ts \in Held("A") : clock >= ts + LockoutBound

====
